---- MODULE Spec2Model ----
(***************************************************************************)
(* ArithMap (src/src/lib.rs): a HashMap<&str, V> with elementwise          *)
(* arithmetic.  The value type V is instantiated at i32, the type of the   *)
(* integer literals in the crate's doc tests.  A call is one action; the   *)
(* iteration order of a HashMap is unspecified, so every loop runs over an *)
(* order the action chooses.  Integer overflow panics when the build has   *)
(* overflow checks (debug profile) and wraps otherwise (release profile).  *)
(***************************************************************************)
EXTENDS Integers, Sequences, FiniteSets, TLC

VARIABLES
  overflow_checks, \* build setting: TRUE = arithmetic overflow panics
  x,               \* the map the program holds (receiver, then result)
  self0,           \* value of self when the last call was made
  other,           \* map operand of the last call
  scalar,          \* scalar operand of the last call
  op,              \* name of the last call, "none" before any call
  status,          \* "ok" = the call returned, "panic" = it unwound
  calls,           \* number of operator calls made so far
  orig,            \* value of self at the first call
  lit,             \* the pair list given to arithmap!
  found            \* result of the last hashmap.get

vars == <<overflow_checks, x, self0, other, scalar, op, status, calls, orig, lit, found>>

----------------------------------------------------------------------------
(* Bounds of the model *)

\* number of distinct key strings
NumKeys == 2
\* longest pair list given to arithmap!
MaxPairs == 2

KeyNames == <<"a", "b", "c", "d">>
Keys == {KeyNames[i] : i \in 1..NumKeys}

----------------------------------------------------------------------------
(* The value type V = i32 *)

I32_MAX == 2147483647
I32_MIN == -I32_MAX - 1

\* Default::default() of the value type
zero == 0

\* values the operands are drawn from: both ends of the range and small ones
Vals == {I32_MIN, -1, 0, 1, I32_MAX}

\* a + b is outside the i32 range
AddOverflows(a, b) ==
  \/ b > 0 /\ a > I32_MAX - b
  \/ b < 0 /\ a < I32_MIN - b

\* a + b modulo 2^32, as a signed 32-bit value
WrappingAdd(a, b) ==
  IF b > 0 /\ a > I32_MAX - b THEN (a + I32_MIN) + (b + I32_MIN)
  ELSE IF b < 0 /\ a < I32_MIN - b THEN (a - I32_MIN) + (b - I32_MIN)
  ELSE a + b

\* a - b is outside the i32 range
SubOverflows(a, b) ==
  \/ b < 0 /\ a > I32_MAX + b
  \/ b > 0 /\ a < I32_MIN + b

\* a - b modulo 2^32, as a signed 32-bit value
WrappingSub(a, b) ==
  IF b < 0 /\ a > I32_MAX + b THEN (a + I32_MIN) - (b - I32_MIN)
  ELSE IF b > 0 /\ a < I32_MIN + b THEN (a - I32_MIN) - (b + I32_MIN)
  ELSE a - b

Abs(a) == IF a < 0 THEN -a ELSE a

\* a * b is outside the i32 range
MulOverflows(a, b) ==
  IF a = 0 \/ b = 0 \/ a = 1 \/ b = 1 THEN FALSE
  ELSE IF a = -1 THEN b = I32_MIN
  ELSE IF b = -1 THEN a = I32_MIN
  ELSE IF a = I32_MIN \/ b = I32_MIN THEN TRUE
  ELSE IF (a > 0) = (b > 0) THEN Abs(a) > I32_MAX \div Abs(b)
  ELSE /\ Abs(a) > I32_MAX \div Abs(b)
       /\ ~(I32_MIN % Abs(b) = 0 /\ I32_MIN \div Abs(b) = -Abs(a))

\* acc + p * n modulo 2^32 for n >= 0 (shift and add over the bits of n)
RECURSIVE MulAcc(_, _, _)
MulAcc(acc, p, n) ==
  IF n = 0 THEN acc
  ELSE MulAcc(IF n % 2 = 1 THEN WrappingAdd(acc, p) ELSE acc,
              WrappingAdd(p, p), n \div 2)

\* a * b modulo 2^32, as a signed 32-bit value
WrappingMul(a, b) ==
  IF b >= 0 THEN MulAcc(0, a, b)
  ELSE IF b = I32_MIN THEN (IF a % 2 = 0 THEN 0 ELSE I32_MIN)
  ELSE WrappingSub(0, MulAcc(0, a, -b))

\* the outcome of one arithmetic step: a value, or a panic
Value(v) == [ok |-> TRUE, val |-> v]
Panic == [ok |-> FALSE, val |-> 0]

\* a + b and *a += b on i32
AddV(a, b) ==
  IF AddOverflows(a, b)
  THEN IF overflow_checks THEN Panic ELSE Value(WrappingAdd(a, b))
  ELSE Value(a + b)

\* SubV with wrapping_sub in place of `-`: never panics
SubV_wrapping(a, b) == Value(WrappingSub(a, b))

\* a - b and *a -= b on i32
SubV(a, b) ==
  IF SubOverflows(a, b)
  THEN IF overflow_checks THEN Panic ELSE Value(WrappingSub(a, b))
  ELSE Value(a - b)

\* *a *= b on i32
MulV(a, b) ==
  IF MulOverflows(a, b)
  THEN IF overflow_checks THEN Panic ELSE Value(WrappingMul(a, b))
  ELSE Value(a * b)

----------------------------------------------------------------------------
(* HashMap<&str, V> *)

\* HashMap::default(): no entries
EmptyMap == [k \in {} |-> zero]

\* every map over the keys and values of the model
AllMaps == UNION {[D -> Vals] : D \in SUBSET Keys}

\* HashMap::insert: add the entry or overwrite its value
Insert(m, k, v) == [kk \in DOMAIN m \cup {k} |-> IF kk = k THEN v ELSE m[kk]]

\* HashMap::get
Get(m, k) == IF k \in DOMAIN m THEN [some |-> TRUE, val |-> m[k]]
             ELSE [some |-> FALSE, val |-> zero]

NoLookup == [key |-> "", some |-> FALSE, val |-> zero]

\* the orders in which HashMap::iter / values_mut may visit the entries of m
Orders(m) ==
  {s \in [1..Cardinality(DOMAIN m) -> DOMAIN m] :
     \A i, j \in 1..Cardinality(DOMAIN m) : s[i] = s[j] => i = j}

\* a loop that ran to its end, and one that unwound at an overflow
Done(m) == [st |-> "ok", map |-> m]
Unwound(m) == [st |-> "panic", map |-> m]

----------------------------------------------------------------------------
(* arithmap! *)

\* arithmap!(@count ...): the number of pairs written in the literal
count(pairs) == Len(pairs)

\* insert_pairs with entry(k).or_insert(v) in place of insert: first pair wins
RECURSIVE insert_pairs_first_wins(_, _, _)
insert_pairs_first_wins(m, pairs, i) ==
  IF i > Len(pairs) THEN m
  ELSE insert_pairs_first_wins(
         IF pairs[i][1] \in DOMAIN m THEN m
         ELSE Insert(m, pairs[i][1], pairs[i][2]), pairs, i + 1)

\* the $( let _ = _map.insert($key, $value); )* repetition, pair i onwards
RECURSIVE insert_pairs(_, _, _)
insert_pairs(m, pairs, i) ==
  IF i > Len(pairs) THEN m
  ELSE insert_pairs(Insert(m, pairs[i][1], pairs[i][2]), pairs, i + 1)

\* arithmap!{k1 => v1, ..., kn => vn}
arithmap(pairs) ==
  LET _cap == count(pairs)
      _map == EmptyMap  \* HashMap::with_capacity(_cap) holds no entry
  IN insert_pairs(_map, pairs, 1)

----------------------------------------------------------------------------
(* prune *)

\* prune with `v > zero` in place of `v != zero`
prune_positive(self) ==
  [k \in {kk \in DOMAIN self : self[kk] > zero} |-> self[k]]

\* self.hashmap.retain(|_, &mut v| v != zero)
prune(self) ==
  [k \in {kk \in DOMAIN self : self[kk] # zero} |-> self[k]]

----------------------------------------------------------------------------
(* map (op) scalar: for v in self.hashmap.values_mut() { *v op= other } *)

\* the loop of Add<V>::add, from the i-th entry visited
RECURSIVE add_scalar_loop(_, _, _, _)
add_scalar_loop(self, rhs, ord, i) ==
  IF i > Len(ord) THEN Done(self)
  ELSE LET v == AddV(self[ord[i]], rhs)
       IN IF ~v.ok THEN Unwound(self)
          ELSE add_scalar_loop([self EXCEPT ![ord[i]] = v.val], rhs, ord, i + 1)

\* Add<V>::add: its outcome under each order of iteration
add_scalar(self, rhs) ==
  {add_scalar_loop(self, rhs, ord, 1) : ord \in Orders(self)}

\* the loop of AddAssign<V>::add_assign, from the i-th entry visited
RECURSIVE add_assign_scalar_loop(_, _, _, _)
add_assign_scalar_loop(self, rhs, ord, i) ==
  IF i > Len(ord) THEN Done(self)
  ELSE LET v == AddV(self[ord[i]], rhs)
       IN IF ~v.ok THEN Unwound(self)
          ELSE add_assign_scalar_loop([self EXCEPT ![ord[i]] = v.val], rhs, ord, i + 1)

\* AddAssign<V>::add_assign: its outcome under each order of iteration
add_assign_scalar(self, rhs) ==
  {add_assign_scalar_loop(self, rhs, ord, 1) : ord \in Orders(self)}

\* the loop of Sub<V>::sub, from the i-th entry visited
RECURSIVE sub_scalar_loop(_, _, _, _)
sub_scalar_loop(self, rhs, ord, i) ==
  IF i > Len(ord) THEN Done(self)
  ELSE LET v == SubV(self[ord[i]], rhs)
       IN IF ~v.ok THEN Unwound(self)
          ELSE sub_scalar_loop([self EXCEPT ![ord[i]] = v.val], rhs, ord, i + 1)

\* Sub<V>::sub: its outcome under each order of iteration
sub_scalar(self, rhs) ==
  {sub_scalar_loop(self, rhs, ord, 1) : ord \in Orders(self)}

\* the loop of SubAssign<V>::sub_assign, from the i-th entry visited
RECURSIVE sub_assign_scalar_loop(_, _, _, _)
sub_assign_scalar_loop(self, rhs, ord, i) ==
  IF i > Len(ord) THEN Done(self)
  ELSE LET v == SubV(self[ord[i]], rhs)
       IN IF ~v.ok THEN Unwound(self)
          ELSE sub_assign_scalar_loop([self EXCEPT ![ord[i]] = v.val], rhs, ord, i + 1)

\* SubAssign<V>::sub_assign: its outcome under each order of iteration
sub_assign_scalar(self, rhs) ==
  {sub_assign_scalar_loop(self, rhs, ord, 1) : ord \in Orders(self)}

\* the loop of Mul<V>::mul, from the i-th entry visited
RECURSIVE mul_scalar_loop(_, _, _, _)
mul_scalar_loop(self, rhs, ord, i) ==
  IF i > Len(ord) THEN Done(self)
  ELSE LET v == MulV(self[ord[i]], rhs)
       IN IF ~v.ok THEN Unwound(self)
          ELSE mul_scalar_loop([self EXCEPT ![ord[i]] = v.val], rhs, ord, i + 1)

\* Mul<V>::mul: its outcome under each order of iteration
mul_scalar(self, rhs) ==
  {mul_scalar_loop(self, rhs, ord, 1) : ord \in Orders(self)}

\* the loop of MulAssign<V>::mul_assign with `*v += other` in place of `*v *= other`
RECURSIVE mul_assign_scalar_loop_adds(_, _, _, _)
mul_assign_scalar_loop_adds(self, rhs, ord, i) ==
  IF i > Len(ord) THEN Done(self)
  ELSE LET v == AddV(self[ord[i]], rhs)
       IN IF ~v.ok THEN Unwound(self)
          ELSE mul_assign_scalar_loop_adds([self EXCEPT ![ord[i]] = v.val], rhs, ord, i + 1)

\* the loop of MulAssign<V>::mul_assign, from the i-th entry visited
RECURSIVE mul_assign_scalar_loop(_, _, _, _)
mul_assign_scalar_loop(self, rhs, ord, i) ==
  IF i > Len(ord) THEN Done(self)
  ELSE LET v == MulV(self[ord[i]], rhs)
       IN IF ~v.ok THEN Unwound(self)
          ELSE mul_assign_scalar_loop([self EXCEPT ![ord[i]] = v.val], rhs, ord, i + 1)

\* MulAssign<V>::mul_assign: its outcome under each order of iteration
mul_assign_scalar(self, rhs) ==
  {mul_assign_scalar_loop(self, rhs, ord, 1) : ord \in Orders(self)}

----------------------------------------------------------------------------
(* map (op) map *)

\* the copy loop inserting Default::default() in place of *v
RECURSIVE copy_into_default(_, _, _, _)
copy_into_default(r, self, ord, i) ==
  IF i > Len(ord) THEN r
  ELSE copy_into_default(Insert(r, ord[i], zero), self, ord, i + 1)

\* for (k, v) in self.hashmap.iter() { r.hashmap.insert(*k, *v); }
RECURSIVE copy_into(_, _, _, _)
copy_into(r, self, ord, i) ==
  IF i > Len(ord) THEN r
  ELSE copy_into(Insert(r, ord[i], self[ord[i]]), self, ord, i + 1)

\* the loop of AddAssign::add_assign, from the i-th entry of rhs visited
RECURSIVE add_assign_map_loop(_, _, _, _)
add_assign_map_loop(self, rhs, ord, i) ==
  IF i > Len(ord) THEN Done(self)
  ELSE LET k == ord[i]
           v1 == Get(self, k)
       IN IF v1.some
          THEN LET v == AddV(v1.val, rhs[k])
               IN IF ~v.ok THEN Unwound(self)
                  ELSE add_assign_map_loop([self EXCEPT ![k] = v.val], rhs, ord, i + 1)
          ELSE add_assign_map_loop(Insert(self, k, rhs[k]), rhs, ord, i + 1)

\* AddAssign::add_assign: its outcome under each order of iteration
add_assign_map(self, rhs) ==
  {add_assign_map_loop(self, rhs, ord, 1) : ord \in Orders(rhs)}

\* the second loop of Add::add without its else branch
RECURSIVE add_merge_no_insert(_, _, _, _)
add_merge_no_insert(r, rhs, ord, i) ==
  IF i > Len(ord) THEN Done(r)
  ELSE LET k == ord[i]
           v1 == Get(r, k)
       IN IF v1.some
          THEN LET v == AddV(v1.val, rhs[k])
               IN IF ~v.ok THEN Unwound(r)
                  ELSE add_merge_no_insert([r EXCEPT ![k] = v.val], rhs, ord, i + 1)
          ELSE add_merge_no_insert(r, rhs, ord, i + 1)

\* the second loop of Add::add with `*v1 = *v2` in place of `*v1 += *v2`
RECURSIVE add_merge_overwrite(_, _, _, _)
add_merge_overwrite(r, rhs, ord, i) ==
  IF i > Len(ord) THEN Done(r)
  ELSE add_merge_overwrite(Insert(r, ord[i], rhs[ord[i]]), rhs, ord, i + 1)

\* the second loop of Add::add, on the copy r
RECURSIVE add_merge(_, _, _, _)
add_merge(r, rhs, ord, i) ==
  IF i > Len(ord) THEN Done(r)
  ELSE LET k == ord[i]
           v1 == Get(r, k)
       IN IF v1.some
          THEN LET v == AddV(v1.val, rhs[k])
               IN IF ~v.ok THEN Unwound(r)
                  ELSE add_merge([r EXCEPT ![k] = v.val], rhs, ord, i + 1)
          ELSE add_merge(Insert(r, k, rhs[k]), rhs, ord, i + 1)

\* Add::add: its outcome under each order of iteration of its two loops
add_map(self, rhs) ==
  LET rs == {copy_into(EmptyMap, self, ord1, 1) : ord1 \in Orders(self)}
  IN {add_merge(r, rhs, ord2, 1) : r \in rs, ord2 \in Orders(rhs)}

\* the loop of SubAssign::sub_assign inserting *v2 in place of zero - *v2
RECURSIVE sub_assign_map_loop_unnegated(_, _, _, _)
sub_assign_map_loop_unnegated(self, rhs, ord, i) ==
  IF i > Len(ord) THEN Done(self)
  ELSE LET k == ord[i]
           v1 == Get(self, k)
           v == IF v1.some THEN SubV(v1.val, rhs[k]) ELSE Value(rhs[k])
       IN IF ~v.ok THEN Unwound(self)
          ELSE IF v1.some
          THEN sub_assign_map_loop_unnegated([self EXCEPT ![k] = v.val], rhs, ord, i + 1)
          ELSE sub_assign_map_loop_unnegated(Insert(self, k, v.val), rhs, ord, i + 1)

\* the loop of SubAssign::sub_assign, from the i-th entry of rhs visited
RECURSIVE sub_assign_map_loop(_, _, _, _)
sub_assign_map_loop(self, rhs, ord, i) ==
  IF i > Len(ord) THEN Done(self)
  ELSE LET k == ord[i]
           v1 == Get(self, k)
           v == IF v1.some THEN SubV(v1.val, rhs[k]) ELSE SubV(zero, rhs[k])
       IN IF ~v.ok THEN Unwound(self)
          ELSE IF v1.some
          THEN sub_assign_map_loop([self EXCEPT ![k] = v.val], rhs, ord, i + 1)
          ELSE sub_assign_map_loop(Insert(self, k, v.val), rhs, ord, i + 1)

\* SubAssign::sub_assign: its outcome under each order of iteration
sub_assign_map(self, rhs) ==
  {sub_assign_map_loop(self, rhs, ord, 1) : ord \in Orders(rhs)}

\* the second loop of Sub::sub inserting *v2 in place of zero - *v2
RECURSIVE sub_merge_unnegated(_, _, _, _)
sub_merge_unnegated(r, rhs, ord, i) ==
  IF i > Len(ord) THEN Done(r)
  ELSE LET k == ord[i]
           v1 == Get(r, k)
           v == IF v1.some THEN SubV(v1.val, rhs[k]) ELSE Value(rhs[k])
       IN IF ~v.ok THEN Unwound(r)
          ELSE IF v1.some
          THEN sub_merge_unnegated([r EXCEPT ![k] = v.val], rhs, ord, i + 1)
          ELSE sub_merge_unnegated(Insert(r, k, v.val), rhs, ord, i + 1)

\* the second loop of Sub::sub storing zero - *v2 under every key of rhs
RECURSIVE sub_merge_from_zero(_, _, _, _)
sub_merge_from_zero(r, rhs, ord, i) ==
  IF i > Len(ord) THEN Done(r)
  ELSE LET k == ord[i]
           v == SubV(zero, rhs[k])
       IN IF ~v.ok THEN Unwound(r)
          ELSE sub_merge_from_zero(Insert(r, k, v.val), rhs, ord, i + 1)

\* the second loop of Sub::sub, on the copy r
RECURSIVE sub_merge(_, _, _, _)
sub_merge(r, rhs, ord, i) ==
  IF i > Len(ord) THEN Done(r)
  ELSE LET k == ord[i]
           v1 == Get(r, k)
           v == IF v1.some THEN SubV(v1.val, rhs[k]) ELSE SubV(zero, rhs[k])
       IN IF ~v.ok THEN Unwound(r)
          ELSE IF v1.some
          THEN sub_merge([r EXCEPT ![k] = v.val], rhs, ord, i + 1)
          ELSE sub_merge(Insert(r, k, v.val), rhs, ord, i + 1)

\* Sub::sub: its outcome under each order of iteration of its two loops
sub_map(self, rhs) ==
  LET rs == {copy_into(EmptyMap, self, ord1, 1) : ord1 \in Orders(self)}
  IN {sub_merge(r, rhs, ord2, 1) : r \in rs, ord2 \in Orders(rhs)}

----------------------------------------------------------------------------
(* The program: build a map, then call operators on it *)

\* the pair lists arithmap! is given
PairLists == UNION {[1..n -> Keys \X Vals] : n \in 0..MaxPairs}

\* the state after `let x = <a map literal>`, in either build profile
Init ==
  /\ overflow_checks \in BOOLEAN
  /\ x \in AllMaps
  /\ self0 = EmptyMap /\ other = EmptyMap /\ scalar = zero
  /\ op = "none" /\ status = "ok" /\ calls = 0
  /\ orig = EmptyMap /\ lit = <<>> /\ found = NoLookup

\* one operator call on x: res is what its loops produced, under one of the
\* orders in which they may visit the entries
Call(name, res, m, s) ==
  /\ status = "ok"
  /\ op' = name /\ self0' = x /\ other' = m /\ scalar' = s
  /\ x' = res.map /\ status' = res.st
  /\ calls' = calls + 1
  /\ orig' = IF calls = 0 THEN x ELSE orig
  /\ UNCHANGED <<overflow_checks, lit, found>>

\* x.prune(), and x.prune() once more
Prune ==
  /\ calls = 0 \/ (calls = 1 /\ op = "prune")
  /\ Call("prune", Done(prune(x)), EmptyMap, zero)

\* x + s
AddScalar ==
  /\ calls = 0
  /\ \E s \in Vals :
       \E res \in add_scalar(x, s) :
         Call("add_scalar", res, EmptyMap, s)

\* x += s
AddAssignScalar ==
  /\ calls = 0
  /\ \E s \in Vals :
       \E res \in add_assign_scalar(x, s) :
         Call("add_assign_scalar", res, EmptyMap, s)

\* x - s
SubScalar ==
  /\ calls = 0
  /\ \E s \in Vals :
       \E res \in sub_scalar(x, s) :
         Call("sub_scalar", res, EmptyMap, s)

\* x -= s
SubAssignScalar ==
  /\ calls = 0
  /\ \E s \in Vals :
       \E res \in sub_assign_scalar(x, s) :
         Call("sub_assign_scalar", res, EmptyMap, s)

\* x * s
MulScalar ==
  /\ calls = 0
  /\ \E s \in Vals :
       \E res \in mul_scalar(x, s) :
         Call("mul_scalar", res, EmptyMap, s)

\* x *= s
MulAssignScalar ==
  /\ calls = 0
  /\ \E s \in Vals :
       \E res \in mul_assign_scalar(x, s) :
         Call("mul_assign_scalar", res, EmptyMap, s)

\* x + y
AddMap ==
  /\ calls = 0
  /\ \E y \in AllMaps :
       \E res \in add_map(x, y) :
         Call("add_map", res, y, zero)

\* x += y
AddAssignMap ==
  /\ calls = 0
  /\ \E y \in AllMaps :
       \E res \in add_assign_map(x, y) :
         Call("add_assign_map", res, y, zero)

\* x - y
SubMap ==
  /\ calls = 0
  /\ \E y \in AllMaps :
       \E res \in sub_map(x, y) :
         Call("sub_map", res, y, zero)

\* (x + y) - y: the sum just returned, minus a map equal to y
SubMapFromSum ==
  /\ calls = 1 /\ op = "add_map"
  /\ \E res \in sub_map(x, other) :
       Call("sub_map", res, other, zero)

\* x -= y
SubAssignMap ==
  /\ calls = 0
  /\ \E y \in AllMaps :
       \E res \in sub_assign_map(x, y) :
         Call("sub_assign_map", res, y, zero)

Next ==
  \/ Prune
  \/ AddScalar \/ AddAssignScalar
  \/ SubScalar \/ SubAssignScalar
  \/ MulScalar \/ MulAssignScalar
  \/ AddMap \/ AddAssignMap
  \/ SubMap \/ SubMapFromSum \/ SubAssignMap

Spec == Init /\ [][Next]_vars

----------------------------------------------------------------------------
(* The program of the arithmap! doc test: build a literal, look keys up *)

InitMacro ==
  /\ overflow_checks \in BOOLEAN
  /\ x = EmptyMap
  /\ self0 = EmptyMap /\ other = EmptyMap /\ scalar = zero
  /\ op = "none" /\ status = "ok" /\ calls = 0
  /\ orig = EmptyMap /\ lit = <<>> /\ found = NoLookup

\* let map = arithmap!{...}
Arithmap ==
  /\ op = "none"
  /\ \E pairs \in PairLists :
       /\ lit' = pairs
       /\ x' = arithmap(pairs)
  /\ op' = "arithmap"
  /\ UNCHANGED <<overflow_checks, self0, other, scalar, status, calls, orig, found>>

\* map.hashmap.get(k)
Lookup ==
  /\ op = "arithmap"
  /\ \E k \in Keys :
       found' = [key |-> k, some |-> Get(x, k).some, val |-> Get(x, k).val]
  /\ UNCHANGED <<overflow_checks, x, self0, other, scalar, op, status, calls, orig, lit>>

NextMacro == Arithmap \/ Lookup

SpecMacro == InitMacro /\ [][NextMacro]_vars

----------------------------------------------------------------------------
(* Properties *)

\* a.get(k, zero): the value of k in m, zero when m has no entry for k
get_or_zero(m, k) == IF k \in DOMAIN m THEN m[k] ELSE zero

ScalarOps == {"add_scalar", "add_assign_scalar", "sub_scalar",
              "sub_assign_scalar", "mul_scalar", "mul_assign_scalar"}

\* the keys written in the literal
Listed == {lit[i][1] : i \in 1..Len(lit)}

\* the position of the last pair of the literal whose key is k
LastOf(k) == CHOOSE i \in 1..Len(lit) :
               /\ lit[i][1] = k
               /\ \A j \in 1..Len(lit) : lit[j][1] = k => j <= i

\* some entry the last call computes falls outside the i32 range
EntryOverflows ==
  CASE op \in {"add_scalar", "add_assign_scalar"} ->
         \E k \in DOMAIN self0 : AddOverflows(self0[k], scalar)
    [] op \in {"sub_scalar", "sub_assign_scalar"} ->
         \E k \in DOMAIN self0 : SubOverflows(self0[k], scalar)
    [] op \in {"mul_scalar", "mul_assign_scalar"} ->
         \E k \in DOMAIN self0 : MulOverflows(self0[k], scalar)
    [] op \in {"add_map", "add_assign_map"} ->
         \E k \in DOMAIN self0 \cap DOMAIN other : AddOverflows(self0[k], other[k])
    [] op \in {"sub_map", "sub_assign_map"} ->
         \E k \in DOMAIN other : SubOverflows(get_or_zero(self0, k), other[k])
    [] OTHER -> FALSE

\* C1: a returned a + b has exactly the keys of a and of b, and every key
\* whose sum is in range holds a.get(k, zero) + b.get(k, zero).
C1_AddIsSumOverUnion ==
  (op = "add_map" /\ status = "ok") =>
    /\ DOMAIN x = DOMAIN self0 \cup DOMAIN other
    /\ \A k \in DOMAIN x :
         ~AddOverflows(get_or_zero(self0, k), get_or_zero(other, k)) =>
           x[k] = get_or_zero(self0, k) + get_or_zero(other, k)

\* a + b returned, with a key of both operands and a key of b alone
C1_Witness ==
  /\ op = "add_map" /\ status = "ok"
  /\ \E k \in DOMAIN self0 \cap DOMAIN other :
       self0[k] = 1 /\ other[k] = 1 /\ x[k] = 2
  /\ \E k \in DOMAIN other \ DOMAIN self0 : other[k] = -1 /\ x[k] = -1

\* C2: a returned a - b has exactly the keys of a and of b, and every key
\* holds a.get(k, zero) - b.get(k, zero) in the value type's arithmetic: zero
\* for a key with equal values in both, zero - b[k] for a key of b alone.
C2_SubIsDifferenceOverUnion ==
  (op = "sub_map" /\ status = "ok") =>
    /\ DOMAIN x = DOMAIN self0 \cup DOMAIN other
    /\ \A k \in DOMAIN x :
         /\ x[k] = WrappingSub(get_or_zero(self0, k), get_or_zero(other, k))
         /\ ~SubOverflows(get_or_zero(self0, k), get_or_zero(other, k)) =>
              x[k] = get_or_zero(self0, k) - get_or_zero(other, k)
    /\ \A k \in DOMAIN self0 \cap DOMAIN other : self0[k] = other[k] => x[k] = zero

\* a - b returned, with equal values under a shared key and a key of b alone
C2_Witness ==
  /\ op = "sub_map" /\ status = "ok" /\ calls = 1
  /\ \E k \in DOMAIN self0 \cap DOMAIN other :
       self0[k] = 1 /\ other[k] = 1 /\ x[k] = 0
  /\ \E k \in DOMAIN other \ DOMAIN self0 : other[k] = 1 /\ x[k] = -1

\* C3: x += y leaves in the receiver what x + y returns, and x -= y what
\* x - y returns: both forms return or both panic, and when they return the
\* maps are equal, whatever the order of iteration.
C3_AssignFormsAgree ==
  /\ op = "add_assign_map" =>
       \A o \in add_map(self0, other) :
         o.st = status /\ (status = "ok" => o.map = x)
  /\ op = "sub_assign_map" =>
       \A o \in sub_map(self0, other) :
         o.st = status /\ (status = "ok" => o.map = x)

\* x -= y returned, y holding a key of x and a key x lacks
C3_Witness ==
  /\ op = "sub_assign_map" /\ status = "ok"
  /\ \E k \in DOMAIN other \cap DOMAIN self0 : other[k] # zero
  /\ \E k \in DOMAIN other \ DOMAIN self0 : other[k] = 1 /\ x[k] = -1

\* C4: prune removes exactly the zero-valued entries, keeps every other
\* entry unchanged, adds none, and a second prune changes nothing.
C4_PruneRemovesExactlyZeros ==
  op = "prune" =>
    /\ status = "ok"
    /\ DOMAIN x = {k \in DOMAIN self0 : self0[k] # zero}
    /\ \A k \in DOMAIN x : x[k] = self0[k]
    /\ calls = 2 => x = self0

\* a map with a zero and a non-zero entry, pruned twice
C4_Witness ==
  /\ op = "prune" /\ calls = 2
  /\ \E k \in DOMAIN orig : orig[k] = zero
  /\ \E k \in DOMAIN orig : orig[k] # zero
  /\ x # orig

\* C5: a scalar operation never changes the key set; when it returns, every
\* value v has become v + s, v - s or v * s in the value type's arithmetic,
\* and the other form of the same operation gives the same map.
C5_ScalarOpsKeepKeys ==
  op \in ScalarOps =>
    /\ DOMAIN x = DOMAIN self0
    /\ status = "ok" =>
         /\ op \in {"add_scalar", "add_assign_scalar"} =>
              /\ \A k \in DOMAIN x : x[k] = WrappingAdd(self0[k], scalar)
              /\ add_scalar(self0, scalar) = {Done(x)}
              /\ add_assign_scalar(self0, scalar) = {Done(x)}
         /\ op \in {"sub_scalar", "sub_assign_scalar"} =>
              /\ \A k \in DOMAIN x : x[k] = WrappingSub(self0[k], scalar)
              /\ sub_scalar(self0, scalar) = {Done(x)}
              /\ sub_assign_scalar(self0, scalar) = {Done(x)}
         /\ op \in {"mul_scalar", "mul_assign_scalar"} =>
              /\ \A k \in DOMAIN x : x[k] = WrappingMul(self0[k], scalar)
              /\ mul_scalar(self0, scalar) = {Done(x)}
              /\ mul_assign_scalar(self0, scalar) = {Done(x)}
    /\ \A k \in DOMAIN x :
         /\ (status = "ok" /\ op \in {"add_scalar", "add_assign_scalar"}
               /\ ~AddOverflows(self0[k], scalar)) => x[k] = self0[k] + scalar
         /\ (status = "ok" /\ op \in {"sub_scalar", "sub_assign_scalar"}
               /\ ~SubOverflows(self0[k], scalar)) => x[k] = self0[k] - scalar
         /\ (status = "ok" /\ op \in {"mul_scalar", "mul_assign_scalar"}
               /\ ~MulOverflows(self0[k], scalar)) => x[k] = self0[k] * scalar

\* x *= -1 returned on a map of two entries and changed it
C5_Witness ==
  /\ op = "mul_assign_scalar" /\ status = "ok" /\ scalar = -1
  /\ Cardinality(DOMAIN self0) = 2
  /\ \A k \in DOMAIN self0 : self0[k] = 1 /\ x[k] = -1

\* C6: x + y and y + x are equal maps (both return, or both panic), also
\* when the key sets differ, are disjoint, or one operand is empty.
C6_AddCommutes ==
  op = "add_map" =>
    \A o \in add_map(other, self0) :
      o.st = status /\ (status = "ok" => o.map = x)

\* x + y returned for operands with disjoint, non-empty key sets
C6_Witness ==
  /\ op = "add_map" /\ status = "ok"
  /\ DOMAIN self0 # {} /\ DOMAIN other # {}
  /\ DOMAIN self0 \cap DOMAIN other = {}
  /\ \E k \in DOMAIN self0 : self0[k] # zero
  /\ \E k \in DOMAIN other : other[k] # zero

\* no sum of x + y left the i32 range
NoOverflowInSum ==
  \A k \in DOMAIN orig \cap DOMAIN other : ~AddOverflows(orig[k], other[k])

\* C7: when every key of y is a key of x and nothing overflows,
\* (x + y) - y is x.
C7_AddThenSubRestores ==
  (calls = 2 /\ op = "sub_map" /\ status = "ok"
     /\ DOMAIN other \subseteq DOMAIN orig /\ NoOverflowInSum) => x = orig

\* (x + y) - y returned, y non-zero on some of the keys of x
C7_Witness ==
  /\ calls = 2 /\ op = "sub_map" /\ status = "ok"
  /\ DOMAIN other \subseteq DOMAIN orig /\ DOMAIN other # DOMAIN orig
  /\ NoOverflowInSum
  /\ \E k \in DOMAIN other : other[k] = 1 /\ self0[k] = orig[k] + 1

\* C8 as stated: a key of y alone comes out of (x + y) - y with the negated
\* value zero - y[k].
C8_NewKeysNegated ==
  (calls = 2 /\ op = "sub_map" /\ status = "ok") =>
    \A k \in DOMAIN other \ DOMAIN orig :
      k \in DOMAIN x /\ x[k] = WrappingSub(zero, other[k])

\* C8 amended: a key of y alone stays in (x + y) - y with value zero
\* (y[k] - y[k]), and the keys of x alone keep the value they have in x.
C8_NewKeysBecomeZero ==
  (calls = 2 /\ op = "sub_map" /\ status = "ok") =>
    /\ DOMAIN x = DOMAIN orig \cup DOMAIN other
    /\ \A k \in DOMAIN other \ DOMAIN orig : x[k] = zero
    /\ \A k \in DOMAIN orig \ DOMAIN other : x[k] = orig[k]

\* (x + y) - y returned, y holding a non-zero value under a key x lacks
C8_Witness ==
  /\ calls = 2 /\ op = "sub_map" /\ status = "ok"
  /\ \E k \in DOMAIN other \ DOMAIN orig :
       other[k] = 1 /\ self0[k] = 1 /\ x[k] = 0

\* C9: arithmap! yields exactly the listed keys, each with the value of its
\* last occurrence, and hashmap.get of a key that is not listed is None.
C9_LiteralLastWins ==
  op = "arithmap" =>
    /\ DOMAIN x = Listed
    /\ \A k \in DOMAIN x : x[k] = lit[LastOf(k)][2]
    /\ found # NoLookup =>
         /\ found.some <=> found.key \in Listed
         /\ found.some => found.val = lit[LastOf(found.key)][2]

\* a literal that lists one key twice with different values, and a lookup
\* of a key it does not list
C9_Witness ==
  /\ op = "arithmap" /\ Len(lit) = 2
  /\ lit[1][1] = lit[2][1] /\ lit[1][2] = 1 /\ lit[2][2] = 0
  /\ found # NoLookup /\ found.key \notin Listed /\ ~found.some

\* C10 as stated: every call completes and returns a map.
C10_EveryCallReturns ==
  op # "none" => status = "ok"

\* C10 amended: a call panics exactly when the build checks overflow and
\* some entry it computes leaves the i32 range; prune never panics, and
\* without overflow checks every call returns, out-of-range values wrapped.
C10_PanicsOnlyOnCheckedOverflow ==
  op \notin {"none", "arithmap"} =>
    /\ status = "panic" <=> (overflow_checks /\ EntryOverflows)
    /\ status \in {"ok", "panic"}

\* x - y unwound in a build with overflow checks: zero - i32::MIN
C10_Witness ==
  /\ op = "sub_map" /\ overflow_checks /\ status = "panic"
  /\ \E k \in DOMAIN other \ DOMAIN self0 : other[k] = I32_MIN

====
